---- MODULE Spec2Model ----
(***************************************************************************)
(* A model of the execution core of Awudima_FQP:                           *)
(*   - the Nested Loop Optional operator                                   *)
(*       (awudima/operators/blocking/NestedLoopOptional.py),               *)
(*   - the Xproject operator (awudima/operators/qforms/Xproject.py),       *)
(*   - the ordering of Service nodes (awudima/pysparql/model.py).          *)
(*                                                                         *)
(* Variable names are sequences of characters (<<"?", "x">> is ?x), so     *)
(* that name[1:] is Tail(name).  Values are strings.  A mapping (a Python  *)
(* dict) is a function from variable names to values.  A stream item is a  *)
(* record [eof, m]: either the "EOF" token or a mapping m.                 *)
(***************************************************************************)
EXTENDS Integers, Sequences, FiniteSets, TLC

(***************************************************************************)
(* Bounds of the model.                                                    *)
(***************************************************************************)
\* number of tuples the left stream delivers before EOF
MaxLeft == 2
\* number of tuples the remote source delivers in one run, all calls together
MaxRemote == 2
\* the clock reads 0..MaxClock; at MaxClock every further reading is a tie
MaxClock == 1
\* number of mappings on the input stream of Xproject before its EOF
MaxIn == 3
\* the largest limit Xproject is configured with
MaxLimit == 3
\* number of triple patterns of a Service
MaxTriples == 2
\* number of calls made on a tree
MaxCalls == 2
\* number of triple patterns compared with one another
MaxPatterns == 3
\* the greatest capacity of the stream between two workers
MaxCapacity == 2
\* the greatest limit of Xproject in the pipeline
MaxPipeLimit == 1

(***************************************************************************)
(* Mappings and stream items.                                              *)
(***************************************************************************)
X == <<"x">>
Y == <<"y">>
Z == <<"z">>

Val == {"a", "b"}

EmptyMap == [k \in {} |-> ""]

\* dict(d); d.update(e): the bindings of e win on the keys both bind
Update(d, e) ==
    [k \in (DOMAIN d) \cup (DOMAIN e) |-> IF k \in DOMAIN e THEN e[k] ELSE d[k]]

\* {k: v for k in keys}
ConstMap(keys, v) == [k \in keys |-> v]

\* {v: t[v] for v in vs}
Restrict(t, vs) == [k \in vs |-> t[k]]

Range(s) == {s[k] : k \in DOMAIN s}

Tup(m) == [eof |-> FALSE, m |-> m]
EOF == [eof |-> TRUE, m |-> EmptyMap]

\* the sequences over S of length at most n
SeqUpTo(S, n) == UNION {[1..k -> S] : k \in 0..n}

(***************************************************************************)
(* OperatorStructures: Record and Table (a fixed number of partitions, each *)
(* an append-only list of records).                                        *)
(***************************************************************************)
(* Table.size: a fixed power of two (128 in the program's configuration).    *)
(* The model keeps the smallest one with more than one partition: hash is  *)
(* arbitrary, so two keys may share a partition or not, and partitions do  *)
(* not interact.                                                           *)
TableSize == 2

\* Record(tuple, ats, dts): the record holds the dict it was given
Record(tuple, ats, dts) == [tuple |-> tuple, ats |-> ats, dts |-> dts]

\* Table(): every partition empty
Table == [p \in 0..(TableSize - 1) |-> <<>>]

\* Table.insertRecord(i, record)
insertRecord(table, i, record) == [table EXCEPT ![i] = Append(@, record)]

(***************************************************************************)
(* NestedLoopOptional.                                                     *)
(***************************************************************************)
\* the variables the left operand binds
VarsLeft == {X, Y}
\* the variable sets the right operand may be declared with
VarsRightChoices == {{X, Z}, {X, Y, Z}, {Z}}

\* the tuples of the left stream: every variable of vars_left bound
LeftTuples == [VarsLeft -> Val]

\* tuples a remote source may deliver: it need not bind the join variables,
\* and it may bind a variable of the left side that is no join variable
RemoteTuples ==
    {ConstMap({Z}, "a"),
     Update(ConstMap({X}, "b"), ConstMap({Z}, "a")),
     Update(ConstMap({Y}, "b"), ConstMap({Z}, "b"))}

\* list(set): the elements of the set in one order, fixed once and for all
ListOf(S) == CHOOSE s \in [1..Cardinality(S) -> S] : Range(s) = S

VARIABLES
    vars_left,      \* self.vars_left
    vars_right,     \* self.vars_right
    vars,           \* self.vars: the join variables, in their fixed order
    atts,           \* self.right.atts
    left,           \* self.left: the buffer of stream items
    left_table,     \* self.left_table.partitions
    right_table,    \* self.right_table.partitions
    results,        \* self.results
    out,            \* the output stream (self.qresults)
    pc,             \* where execute is: drain, probe, flush, done, error
    clock,          \* the last reading of time()
    hashfn,         \* hash() on the key strings hashed so far
    nremote,        \* tuples delivered by the remote source so far
    lin,            \* history: the tuples read from the left stream
    emitted,        \* history: every results.append, with its left tuple, its record of R
                    \*          and the tuple read from qright
    calls           \* history: every right.execute call

nloVars == <<vars_left, vars_right, vars, atts, left, left_table, right_table,
             results, out, pc, clock, hashfn, nremote, lin, emitted, calls>>

VARIABLES
    xvars,          \* Xproject.vars: the projection list, of Arguments
    xlimit,         \* Xproject.limit
    xleft,          \* the input stream of Xproject: the items not read yet
    xtuple,         \* the local tuple of Xproject.execute
    xi,             \* the local i of Xproject.execute
    xout,           \* the output stream of Xproject
    xpc,            \* where Xproject.execute is: get, loop, eof, done
    xin,            \* history: the input stream as it was at the start
    xreads          \* history: the number of left.get calls

xpVars == <<xvars, xlimit, xleft, xtuple, xi, xout, xpc, xin, xreads>>

VARIABLES
    services,       \* the Service nodes built so far
    lt              \* lt[<<s1, s2>>]: the value of s1 < s2, for the services built

svcVars == <<services, lt>>

VARIABLES
    tree,           \* the node the next call is made on: the last call's result
    dict,           \* the dictionary d of the calls
    trace           \* history: every call, with self before and after it and its result

astVars == <<tree, dict, trace>>

VARIABLES
    term_map,                \* self.term_map
    rdf_term,                \* self.rdf_term
    comparision_opr,         \* self.comparision_opr
    term,                    \* self.term
    projection,              \* self.projection
    filter_conditions,       \* self.filter_conditions
    sparql_result_template,  \* self.sparql_result_template
    processed                \* whether _process_term_map has run

tmVars == <<term_map, rdf_term, comparision_opr, term, projection, filter_conditions,
            sparql_result_template, processed>>

VARIABLES
    patterns,       \* the Triple patterns built so far
    tlt             \* tlt[<<a, b>>]: the value of a < b, for the patterns built

triVars == <<patterns, tlt>>

VARIABLES
    capacity        \* the number of items the stream between two workers holds

pipeVars == <<capacity>>

vars_all == <<nloVars, xpVars, svcVars, astVars, tmVars, triVars, pipeVars>>

\* att1 = ''; for var in self.vars: att1 = att1 + tuple[var]
RECURSIVE KeyFrom(_, _, _, _)
KeyFrom(tuple, vs, k, att1) ==
    IF k > Len(vs) THEN att1
    ELSE KeyFrom(tuple, vs, k + 1, att1 \o tuple[vs[k]])

KeyOf(tuple, vs) == KeyFrom(tuple, vs, 1, "")

\* instances = []; for v in var: instances = instances + [record.tuple[v]]
Instances(tuple, vs) == [k \in 1..Len(vs) |-> tuple[vs[k]]]

\* a bug: a record that arrived at the same reading of the clock counts as probed
isDuplicatedOnTie(record1, record2) == ~(record1.ats > record2.ats)

\* isDuplicated(record1, record2)
isDuplicated(record1, record2) == ~(record1.ats >= record2.ats)

\* a bug: no break, so that the last join variable alone decides
RECURSIVE JoinLoopLastDecides(_, _, _, _, _)
JoinLoopLastDecides(ltuple, rtuple, var, k, join) ==
    IF k > Len(var) THEN join
    ELSE IF var[k] \notin DOMAIN ltuple \/ var[k] \notin DOMAIN rtuple THEN "keyerror"
    ELSE JoinLoopLastDecides(ltuple, rtuple, var, k + 1,
             IF ltuple[var[k]] # rtuple[var[k]] THEN "false" ELSE "true")

(* The inner loop of probe,                                                *)
(*     for v in var:                                                       *)
(*         join = True                                                     *)
(*         if record.tuple[v] != r.tuple[v]: join = False; break           *)
(* and the value of join after it: "unbound" when the loop body never ran  *)
(* (join is a local that was never assigned), "keyerror" when a tuple does *)
(* not bind v.                                                             *)
RECURSIVE JoinLoop(_, _, _, _, _)
JoinLoop(ltuple, rtuple, var, k, join) ==
    IF k > Len(var) THEN join
    ELSE IF var[k] \notin DOMAIN ltuple \/ var[k] \notin DOMAIN rtuple THEN "keyerror"
    ELSE IF ltuple[var[k]] # rtuple[var[k]] THEN "false"
    ELSE JoinLoop(ltuple, rtuple, var, k + 1, "true")

(* The scan of the partition: for r in partition.records, from record j    *)
(* on.  acc = [outs, anyjoin, join, err, seen]: the results appended so    *)
(* far (each with the position of r in the partition), anyjoin, the local  *)
(* join as the previous iteration left it, whether an exception was        *)
(* raised, and the number of records that reached the match test of lines  *)
(* 92-98.                                                                  *)
RECURSIVE Scan(_, _, _, _, _)
Scan(record, records, var, j, acc) ==
    IF j > Len(records) THEN acc
    ELSE IF isDuplicated(record, records[j]) THEN acc
    ELSE LET join == JoinLoop(record.tuple, records[j].tuple, var, 1, acc.join)
         IN IF join \in {"unbound", "keyerror"}
            THEN [acc EXCEPT !.err = TRUE, !.seen = @ + 1]
            ELSE IF join = "true"
            THEN Scan(record, records, var, j + 1,
                      [outs |-> Append(acc.outs,
                                       [tuple |-> Update(record.tuple, records[j].tuple),
                                        r |-> j]),
                       anyjoin |-> TRUE, join |-> join, err |-> FALSE,
                       seen |-> acc.seen + 1])
            ELSE Scan(record, records, var, j + 1,
                      [acc EXCEPT !.join = join, !.seen = @ + 1])

ScanStart ==
    [outs |-> <<>>, anyjoin |-> FALSE, join |-> "unbound", err |-> FALSE, seen |-> 0]

\* time() never goes back: the non-decreasing sequences of readings
ClockReadings ==
    {ts \in SeqUpTo(0..MaxClock, MaxRemote + 1) :
        \A k \in 1..(Len(ts) - 1) : ts[k] <= ts[k + 1]}

\* n successive readings of time(), the first of them t0
Readings(t0, n) == {ts \in ClockReadings : Len(ts) = n /\ ts[1] = t0}

\* the results a remote source may put on qright before its EOF
RemoteSeqs == SeqUpTo(RemoteTuples, MaxRemote)

\* those the source may still deliver in this run
RemoteResponses == {rs \in RemoteSeqs : Len(rs) <= MaxRemote - nremote}

\* the optional branch: res = {}; for k in self.right.atts: res.update({k: ''})
EmptyRight(attrs) == ConstMap(attrs, "")

\* a bug: the merge of the local-match branch, where the right side wins
OptionalResultRightWins(attrs, ltuple) == Update(ltuple, EmptyRight(attrs))

(* The optional branch: reg = Record(res, time(), 0) holds the dict res    *)
(* itself, and res.update(record.tuple) then changes that same dict: this  *)
(* is the tuple of the cached record and the tuple appended to results.    *)
OptionalResult(attrs, ltuple) == Update(EmptyRight(attrs), ltuple)

\* a bug: the merge of the local-match branch, where the right side wins
JoinResultRightWins(rtuple, ltuple) == Update(ltuple, rtuple)

\* the join branch: res = rtuple.copy(); res.update(record.tuple)
JoinResult(rtuple, ltuple) == Update(rtuple, ltuple)

\* the join branch: res2 = rtuple.copy(); for v in var: res2.update({v: record.tuple[v]})
JoinCached(rtuple, ltuple, var) == Update(rtuple, Restrict(ltuple, Range(var)))

\* a bug: an inner join, which appends nothing when the source has no answer
RemoteResultsInner(rtuples, ltuple, attrs) ==
    [k \in 1..Len(rtuples) |-> JoinResult(rtuples[k], ltuple)]

(* Lines 118-147, the tuples appended to results after the source was      *)
(* contacted: one for each remote tuple, or the one of the optional branch *)
(* when the first item read from qright is EOF.                            *)
RemoteResults(rtuples, ltuple, attrs) ==
    IF Len(rtuples) = 0
    THEN <<OptionalResult(attrs, ltuple)>>
    ELSE [k \in 1..Len(rtuples) |-> JoinResult(rtuples[k], ltuple)]

(* Lines 118-147, the records inserted into R after the source was         *)
(* contacted; ts[1] is the reading taken for the left record.              *)
RemoteRecords(rtuples, ltuple, var, attrs, ts) ==
    IF Len(rtuples) = 0
    THEN <<Record(OptionalResult(attrs, ltuple), ts[2], 0)>>
    ELSE [k \in 1..Len(rtuples) |->
            Record(JoinCached(rtuples[k], ltuple, var), ts[k + 1], 0)]

\* a bug: the loop stops while a tuple is still buffered before the sentinel
MoreToProbeLeavesLast(buf) == Len(buf) > 2

\* execute, lines 45 and 47: len(self.left) > 1, the sentinel being the last item
MoreToProbe(buf) == Len(buf) > 1

\* NestedLoopOptional(vars_left, vars_right), before execute
InitNLO ==
    /\ vars_left = VarsLeft
    /\ vars_right \in VarsRightChoices
    /\ vars = ListOf(vars_left \cap vars_right)
    /\ atts = vars_right
    /\ left = <<>>
    /\ left_table = Table
    /\ right_table = Table
    /\ results = <<>>
    /\ out = <<>>
    /\ pc = "drain"
    /\ clock = 0
    /\ hashfn = EmptyMap
    /\ nremote = 0
    /\ lin = <<>>
    /\ emitted = <<>>
    /\ calls = <<>>

\* no NestedLoopOptional runs
IdleNLO ==
    /\ vars_left = {} /\ vars_right = {} /\ vars = <<>> /\ atts = {}
    /\ left = <<>> /\ left_table = Table /\ right_table = Table
    /\ results = <<>> /\ out = <<>> /\ pc = "idle" /\ clock = 0
    /\ hashfn = EmptyMap /\ nremote = 0 /\ lin = <<>> /\ emitted = <<>>
    /\ calls = <<>>

\* execute, lines 40-42: tuple = qleft.get(True); self.left.append(tuple)
GetLeft ==
    /\ pc = "drain"
    /\ \E item \in {EOF} \cup {Tup(t) : t \in LeftTuples} :
        /\ item.eof \/ Len(lin) < MaxLeft
        /\ left' = Append(left, item)
        /\ lin' = IF item.eof THEN lin ELSE Append(lin, item.m)
        /\ pc' = IF ~item.eof THEN "drain"
                 ELSE IF MoreToProbe(left') THEN "probe" ELSE "flush"
    /\ UNCHANGED <<vars_left, vars_right, vars, atts, left_table, right_table,
                   results, out, clock, hashfn, nremote, emitted, calls>>

(* execute, lines 47-49, with insertAndProbe and probe: one left tuple is  *)
(* popped, inserted into L and probed against its partition of R; when no  *)
(* record of the partition joins, the source is contacted and its answer   *)
(* read to its EOF.  l is the position of the tuple in the left input.     *)
InsertAndProbe ==
    /\ pc = "probe"
    /\ MoreToProbe(left)
    /\ LET tuple == Head(left).m
           l == Len(lin) - (Len(left) - 1) + 1
           key == KeyOf(tuple, vars)
       IN \E i \in 0..(TableSize - 1) :
          /\ key \in DOMAIN hashfn => i = hashfn[key]
          /\ hashfn' = Update(hashfn, ConstMap({key}, i))
          /\ left' = Tail(left)
          /\ \E t0 \in clock..MaxClock :
             LET record == Record(tuple, t0, 0)
                 partition == right_table[i]
                 scan == Scan(record, partition, vars, 1, ScanStart)
                 local == [k \in 1..Len(scan.outs) |->
                              [l |-> l, p |-> i, r |-> scan.outs[k].r,
                               how |-> "local", tuple |-> scan.outs[k].tuple,
                               rtuple |-> EmptyMap]]
             IN /\ left_table' = insertRecord(left_table, i, record)
                /\ IF scan.err
                   THEN \* the exception leaves execute
                        /\ pc' = "error"
                        /\ results' = results \o [k \in 1..Len(local) |-> local[k].tuple]
                        /\ emitted' = emitted \o local
                        /\ clock' = t0
                        /\ UNCHANGED <<right_table, nremote, calls>>
                   ELSE IF Len(partition) = 0 \/ ~scan.anyjoin
                   THEN \E rtuples \in RemoteResponses :
                        \E ts \in Readings(t0, 1 + (IF Len(rtuples) = 0 THEN 1 ELSE Len(rtuples))) :
                        LET regs == RemoteRecords(rtuples, tuple, vars, atts, ts)
                            res == RemoteResults(rtuples, tuple, atts)
                            remote == [k \in 1..Len(res) |->
                                         [l |-> l, p |-> i, r |-> Len(partition) + k,
                                          how |-> IF Len(rtuples) = 0 THEN "optional" ELSE "remote",
                                          tuple |-> res[k],
                                          rtuple |-> IF Len(rtuples) = 0 THEN EmptyMap
                                                     ELSE rtuples[k]]]
                        IN /\ right_table' = [right_table EXCEPT ![i] = @ \o regs]
                           /\ results' = results
                                  \o [k \in 1..Len(local) |-> local[k].tuple] \o res
                           /\ emitted' = emitted \o local \o remote
                           /\ calls' = Append(calls, [l |-> l, vars |-> vars,
                                                      instances |-> Instances(tuple, vars),
                                                      eof |-> Len(rtuples) = 0])
                           /\ nremote' = nremote + Len(rtuples)
                           /\ clock' = ts[Len(ts)]
                           /\ pc' = IF MoreToProbe(left') THEN "probe" ELSE "flush"
                   ELSE /\ results' = results \o [k \in 1..Len(local) |-> local[k].tuple]
                        /\ emitted' = emitted \o local
                        /\ clock' = t0
                        /\ pc' = IF MoreToProbe(left') THEN "probe" ELSE "flush"
                        /\ UNCHANGED <<right_table, nremote, calls>>
    /\ UNCHANGED <<vars_left, vars_right, vars, atts, out, lin>>

\* execute, lines 52-53: self.qresults.put(self.results.pop(0))
PutResult ==
    /\ pc = "flush"
    /\ results # <<>>
    /\ out' = Append(out, Tup(Head(results)))
    /\ results' = Tail(results)
    /\ UNCHANGED <<vars_left, vars_right, vars, atts, left, left_table, right_table,
                   pc, clock, hashfn, nremote, lin, emitted, calls>>

\* a bug: EOF is put although results are still buffered
PutEOFEarly ==
    /\ pc = "flush"
    /\ out' = Append(out, EOF)
    /\ pc' = "done"
    /\ UNCHANGED <<vars_left, vars_right, vars, atts, left, left_table, right_table,
                   results, clock, hashfn, nremote, lin, emitted, calls>>

\* execute, line 56: self.qresults.put("EOF"), once the loop of lines 52-53 is over
PutEOF ==
    /\ pc = "flush"
    /\ results = <<>>
    /\ out' = Append(out, EOF)
    /\ pc' = "done"
    /\ UNCHANGED <<vars_left, vars_right, vars, atts, left, left_table, right_table,
                   results, clock, hashfn, nremote, lin, emitted, calls>>


(***************************************************************************)
(* Argument, and the Xproject operator.                                    *)
(***************************************************************************)
\* Argument(name, constant)
Argument(name, constant) == [name |-> name, constant |-> constant]

A == <<"a">>
B == <<"b">>
C == <<"c">>

XVal == {"1", "2"}

\* the mappings of the input stream: some bind a and b, some only b
XTuples == [{A, B} -> XVal] \cup [{B} -> {"2"}]

\* the projection lists: empty, ?a, ?a ?b, and ?b $c where no mapping binds c
XVarsChoices ==
    {<<>>,
     <<Argument(<<"?">> \o A, FALSE)>>,
     <<Argument(<<"?">> \o A, FALSE), Argument(<<"?">> \o B, FALSE)>>,
     <<Argument(<<"?">> \o B, FALSE), Argument(<<"$">> \o C, FALSE)>>}

\* tuple.get(var, '')
Get(tuple, var, default) == IF var \in DOMAIN tuple THEN tuple[var] ELSE default

(* Lines 31-34: for var in self.vars: var = var.name[1:];                   *)
(* aux = tuple.get(var, ''); res.update({var: aux})                         *)
RECURSIVE ProjectFrom(_, _, _, _)
ProjectFrom(tuple, vs, k, res) ==
    IF k > Len(vs) THEN res
    ELSE LET var == Tail(vs[k].name)
         IN ProjectFrom(tuple, vs, k + 1,
                        Update(res, ConstMap({var}, Get(tuple, var, ""))))

Project(tuple, vs) == ProjectFrom(tuple, vs, 1, EmptyMap)

\* a bug: the projection is applied to an empty projection list too
PutItemProjected(vs, tuple) == Project(tuple, vs)

\* lines 28-35, the mapping put on the output: dict(tuple), or res
PutItem(vs, tuple) == IF Len(vs) = 0 THEN tuple ELSE Project(tuple, vs)

\* lines 28, 36: i is incremented in the branch of a non-empty projection list
NextI(vs, i) == IF Len(vs) = 0 THEN i ELSE i + 1

\* a bug: the loop is left one tuple after the limit
BreaksLate(vs, limit, i) == Len(vs) # 0 /\ 0 < limit /\ limit < i

\* lines 28, 37: if 0 < self.limit <= i: break, in that same branch
Breaks(vs, limit, i) == Len(vs) # 0 /\ 0 < limit /\ limit <= i

\* Xproject(vars, limit), and the stream it is to read
InitXP ==
    /\ xvars \in XVarsChoices
    /\ xlimit \in (-1)..MaxLimit
    /\ xleft \in {s \o <<EOF>> : s \in {[k \in DOMAIN q |-> Tup(q[k])] :
                                           q \in SeqUpTo(XTuples, MaxIn)}}
    /\ xin = xleft
    /\ xtuple = EOF
    /\ xi = 0
    /\ xout = <<>>
    /\ xpc = "get"
    /\ xreads = 0

\* no Xproject runs
IdleXP ==
    /\ xvars = <<>> /\ xlimit = -1 /\ xleft = <<>> /\ xin = <<>>
    /\ xtuple = EOF /\ xi = 0 /\ xout = <<>> /\ xpc = "idle" /\ xreads = 0

\* lines 24 and 39: tuple = self.left.get(True); blocks while the stream is empty
XGet ==
    /\ xpc = "get"
    /\ xleft # <<>>
    /\ xtuple' = Head(xleft)
    /\ xleft' = Tail(xleft)
    /\ xreads' = xreads + 1
    /\ xpc' = "loop"
    /\ UNCHANGED <<xvars, xlimit, xi, xout, xin>>

\* lines 26-38: one turn of the loop, up to the break or the next get
XPut ==
    /\ xpc = "loop"
    /\ ~xtuple.eof
    /\ xout' = Append(xout, Tup(PutItem(xvars, xtuple.m)))
    /\ xi' = NextI(xvars, xi)
    /\ xpc' = IF Breaks(xvars, xlimit, xi') THEN "eof" ELSE "get"
    /\ UNCHANGED <<xvars, xlimit, xleft, xtuple, xin, xreads>>

\* line 42: self.qresults.put("EOF"), after the loop ended on EOF or on the break
XPutEOF ==
    /\ \/ xpc = "loop" /\ xtuple.eof
       \/ xpc = "eof"
    /\ xout' = Append(xout, EOF)
    /\ xpc' = "done"
    /\ UNCHANGED <<xvars, xlimit, xleft, xtuple, xi, xin, xreads>>

(***************************************************************************)
(* Triple and Service: the constants of a pattern, and Service.__lt__.     *)
(***************************************************************************)
\* Triple(subject, predicate, theobject)
Triple(subject, predicate, theobject) ==
    [subject |-> subject, predicate |-> predicate, theobject |-> theobject]

\* the arguments of the patterns: a variable and a constant
SvcArguments == {Argument(<<"?">> \o X, FALSE), Argument(<<"<", "c", ">">>, TRUE)}

Triples == {Triple(s, p, o) : s \in SvcArguments, p \in SvcArguments, o \in SvcArguments}

\* Service(endpoint, triples, ...), triples a list of Triple
Services == [triples : SeqUpTo(Triples, MaxTriples)]

\* Triple.const_subjects, const_predicates, const_objects, constantNumber, places
TripleConstSubjects(t) == IF t.subject.constant THEN 1 ELSE 0
TripleConstPredicates(t) == IF t.predicate.constant THEN 1 ELSE 0
TripleConstObjects(t) == IF t.theobject.constant THEN 1 ELSE 0
TripleConstantNumber(t) ==
    (IF t.subject.constant THEN 1 ELSE 0) + (IF t.predicate.constant THEN 1 ELSE 0)
        + (IF t.theobject.constant THEN 1 ELSE 0)
TriplePlaces(t) == 3

\* p = 0; for t in self.triples: p = p + t.f(), ns the values t.f() in list order
RECURSIVE SumFrom(_, _, _)
SumFrom(ns, k, p) ==
    IF k > Len(ns) THEN p ELSE SumFrom(ns, k + 1, p + ns[k])

\* Service.const_subjects, const_predicates, const_objects, constantNumber, places
const_subjects(s) ==
    SumFrom([k \in DOMAIN s.triples |-> TripleConstSubjects(s.triples[k])], 1, 0)
const_predicates(s) ==
    SumFrom([k \in DOMAIN s.triples |-> TripleConstPredicates(s.triples[k])], 1, 0)
const_objects(s) ==
    SumFrom([k \in DOMAIN s.triples |-> TripleConstObjects(s.triples[k])], 1, 0)
constantNumber(s) ==
    SumFrom([k \in DOMAIN s.triples |-> TripleConstantNumber(s.triples[k])], 1, 0)
places(s) ==
    SumFrom([k \in DOMAIN s.triples |-> TriplePlaces(s.triples[k])], 1, 0)

(* Service.constantPercentage: 0 when places() is 0, else the quotient     *)
(* constantNumber()/places(), kept as the fraction <<numerator,            *)
(* denominator>> and compared by cross-multiplication.                     *)
constantPercentage(s) ==
    IF places(s) = 0 THEN <<0, 1>> ELSE <<constantNumber(s), places(s)>>

FracEq(p, q) == p[1] * q[2] = q[1] * p[2]
FracGt(p, q) == p[1] * q[2] > q[1] * p[2]

\* the constants of a Service by position: subjects, predicates, objects
Counts(s) ==
    [S |-> const_subjects(s), P |-> const_predicates(s), O |-> const_objects(s)]

\* a bug: line 497 compares the subjects of other with the predicates of self
ServiceLtMixed(self, other) ==
    LET a == Counts(self)
        b == Counts(other)
    IN IF b.S + b.P > a.S + a.P THEN FALSE
       ELSE IF b.S + b.P < a.S + a.P THEN TRUE
       ELSE IF b.S > a.P THEN FALSE
       ELSE IF b.S < a.S THEN TRUE
       ELSE IF FracEq(constantPercentage(other), constantPercentage(self))
            THEN ~(constantNumber(other) > constantNumber(self))
            ELSE FracGt(constantPercentage(self), constantPercentage(other))

\* a bug: the outcomes of lines 497-500 exchanged, fewer constant subjects first
ServiceLtSubjectsSwapped(self, other) ==
    LET a == Counts(self)
        b == Counts(other)
    IN IF b.S + b.P > a.S + a.P THEN FALSE
       ELSE IF b.S + b.P < a.S + a.P THEN TRUE
       ELSE IF b.S > a.S THEN TRUE
       ELSE IF b.S < a.S THEN FALSE
       ELSE IF FracEq(constantPercentage(other), constantPercentage(self))
            THEN ~(constantNumber(other) > constantNumber(self))
            ELSE FracGt(constantPercentage(self), constantPercentage(other))

(* Service.__lt__(self, other), lines 493-524.  The branch of line 509     *)
(* returns nothing when its four tests fail, and the tests of lines        *)
(* 518-524 follow.                                                         *)
ServiceLt(self, other) ==
    LET a == Counts(self)
        b == Counts(other)
    IN IF b.S + b.P > a.S + a.P THEN FALSE
       ELSE IF b.S + b.P < a.S + a.P THEN TRUE
       ELSE IF b.S > a.S THEN FALSE
       ELSE IF b.S < a.S THEN TRUE
       ELSE IF b.O + b.P > a.O + a.P THEN FALSE
       ELSE IF b.O + b.P < a.O + a.P THEN TRUE
       ELSE IF b.O > a.O THEN FALSE
       ELSE IF b.O < a.O THEN TRUE
       ELSE IF b.S = a.S /\ b.P > a.P THEN FALSE
       ELSE IF b.S = a.S /\ b.P < a.P THEN TRUE
       ELSE IF b.S = a.S /\ b.O > a.O THEN FALSE
       ELSE IF b.S = a.S /\ b.O < a.O THEN TRUE
       ELSE IF FracEq(constantPercentage(other), constantPercentage(self))
            THEN ~(constantNumber(other) > constantNumber(self))
            ELSE FracGt(constantPercentage(self), constantPercentage(other))

\* no Service is built yet
InitSvc ==
    /\ services = {}
    /\ lt = EmptyMap

\* one more Service is built, up to three, and every pair of them is compared
AddService ==
    /\ Cardinality(services) < 3
    /\ \E s \in Services \ services :
        /\ services' = services \cup {s}
        /\ lt' = [pair \in services' \X services' |->
                    IF pair \in DOMAIN lt THEN lt[pair] ELSE ServiceLt(pair[1], pair[2])]

(***************************************************************************)
(* The algebra tree: Filter, Expression, JoinBlock, UnionBlock, Optional,  *)
(* Service and Query nodes over Triples and Arguments; instantiate,        *)
(* instantiateFilter and the statistics of every node.                     *)
(*                                                                         *)
(* The attribute triples of a block or a Service is a Python list or one   *)
(* node: List(items) or Single(node).  The attribute filters of a block is *)
(* a list of Filters, or a string where the code passes one in its place.  *)
(* A call that raises has the exception as its result.                     *)
(***************************************************************************)
List(items) == [islist |-> TRUE, items |-> items]
Single(node) == [islist |-> FALSE, items |-> <<node>>]

FilterList(fs) == [isstr |-> FALSE, items |-> fs, str |-> ""]
FilterStr(s) == [isstr |-> TRUE, items |-> <<>>, str |-> s]

\* None, as the right operand of a unary Expression
None == [kind |-> "None"]

\* Expression(op, left, right)
Expression(op, lhs, rhs) == [kind |-> "Expression", op |-> op, left |-> lhs, right |-> rhs]

\* Filter(expr)
Filter(expr) == [kind |-> "Filter", expr |-> expr]

\* JoinBlock(triples, filters, filters_str)
JoinBlock(triples, filters, filters_str) ==
    [kind |-> "JoinBlock", triples |-> triples, filters |-> filters,
     filters_str |-> filters_str]

\* UnionBlock(triples, filters)
UnionBlock(triples, filters) ==
    [kind |-> "UnionBlock", triples |-> triples, filters |-> filters]

\* Optional(bgg)
Optional(bgg) == [kind |-> "Optional", bgg |-> bgg]

\* Service(endpoint, triples, ..., filters, ..., filter_nested)
Service(triples, filters, filter_nested) ==
    [kind |-> "Service", triples |-> triples, filters |-> filters,
     filter_nested |-> filter_nested]

\* the class of a node
Kind(node) ==
    IF "subject" \in DOMAIN node THEN "Triple"
    ELSE IF "constant" \in DOMAIN node THEN "Argument"
    ELSE node.kind

(* SPARQL.getJoinVarsUnionBlock and SPARQL.getJoinVarsJoinBlock: the list  *)
(* of the variables in subject and in object position, block by block.  A  *)
(* Service of a Query holds a UnionBlock as its triples.                   *)
RECURSIVE getJoinVarsBlock(_)
getJoinVarsBlock(block) ==
    LET RECURSIVE over(_, _, _)
        over(items, k, join_vars) ==
            IF k > Len(items) THEN join_vars
            ELSE LET bgp == items[k]
                     kind == Kind(bgp)
                 IN over(items, k + 1,
                      join_vars \o
                      (CASE kind = "Triple" ->
                              (IF bgp.subject.constant THEN <<>> ELSE <<bgp.subject.name>>)
                                \o (IF bgp.theobject.constant THEN <<>>
                                     ELSE <<bgp.theobject.name>>)
                         [] kind = "Service" -> getJoinVarsBlock(bgp.triples.items[1])
                         [] kind = "Optional" -> getJoinVarsBlock(bgp.bgg)
                         [] kind \in {"UnionBlock", "JoinBlock"} -> getJoinVarsBlock(bgp)
                         [] OTHER -> <<>>))
    IN over(block.triples.items, 1, <<>>)

\* list.count
Count(list, v) == Cardinality({k \in DOMAIN list : list[k] = v})

\* Query.getJoinVars
getJoinVars(body) ==
    LET join_vars == getJoinVarsBlock(body)
    IN {join_vars[k] : k \in {k \in DOMAIN join_vars : Count(join_vars, join_vars[k]) > 1}}

\* Query(prefs, args, body, distinct, ..., filter_nested)
Query(args, body, filter_nested) ==
    [kind |-> "Query", args |-> args, body |-> body, filter_nested |-> filter_nested,
     join_vars |-> getJoinVars(body)]

\* an exception raised by a call
Raised(exception) == [kind |-> exception]

IsRaised(node) == Kind(node) \in {"AttributeError", "ZeroDivisionError"}

\* a list comprehension one of whose calls raised
AnyRaised(items) == \E k \in DOMAIN items : IsRaised(items[k])

\* self.unaryFunctor, the members the model uses
unaryFunctor == {"!", "BOUND"}

\* name.lstrip('?$')
RECURSIVE LStrip(_)
LStrip(name) ==
    IF name # <<>> /\ Head(name) \in {"?", "$"} THEN LStrip(Tail(name)) ELSE name

\* a bug: the new Argument is left a variable
InstantiateArgumentAsVariable(arg, d) ==
    IF (~arg.constant) /\ LStrip(arg.name) \in DOMAIN d
    THEN Argument(d[LStrip(arg.name)], FALSE)
    ELSE arg

\* Triple.instantiate, for one position: lines 1165-1179
InstantiateArgument(arg, d) ==
    IF (~arg.constant) /\ LStrip(arg.name) \in DOMAIN d
    THEN Argument(d[LStrip(arg.name)], TRUE)
    ELSE arg

\* Triple.instantiate(d)
TripleInstantiate(t, d) ==
    Triple(InstantiateArgument(t.subject, d), InstantiateArgument(t.predicate, d),
           InstantiateArgument(t.theobject, d))

(* instantiate(d) of every class.  Argument has no method instantiate, so  *)
(* that Expression.instantiate, and with it Filter.instantiate, raises     *)
(* AttributeError.  Service and Query change self and return it.           *)
RECURSIVE instantiate(_, _)
instantiate(node, d) ==
    LET kind == Kind(node)
        each(items) == [k \in DOMAIN items |-> instantiate(items[k], d)]
    IN CASE kind = "Triple" -> TripleInstantiate(node, d)
         [] kind = "Service" ->
              LET ts == each(node.triples.items)
              IN IF AnyRaised(ts) THEN Raised("AttributeError")
                 ELSE [node EXCEPT !.triples.items = ts]
         [] kind = "UnionBlock" ->
              LET ts == each(node.triples.items)
              IN IF AnyRaised(ts) THEN Raised("AttributeError")
                 ELSE IF node.triples.islist
                      THEN JoinBlock(List(ts), FilterList(<<>>), "")
                      ELSE ts[1]
         [] kind = "JoinBlock" ->
              LET ts == each(node.triples.items)
              IN IF AnyRaised(ts) THEN Raised("AttributeError")
                 ELSE IF node.triples.islist
                      THEN JoinBlock(List(ts), node.filters, "")
                      ELSE ts[1]
         [] kind = "Optional" ->
              LET b == instantiate(node.bgg, d)
              IN IF IsRaised(b) THEN b ELSE Optional(b)
         [] kind = "Query" ->
              LET b == instantiate(node.body, d)
              IN IF IsRaised(b) THEN b ELSE [node EXCEPT !.body = b]
         [] OTHER -> Raised("AttributeError")

\* Service.instantiateFilter(d, filter_str), lines 556-562
ServiceInstantiateFilter(node, filter_str) ==
    [node EXCEPT !.filter_nested = <<filter_str>>]

(* instantiateFilter(d, filter_str) of every class.  Triple returns a copy *)
(* of itself; UnionBlock passes filter_str where JoinBlock takes filters;  *)
(* Query calls instantiate, not instantiateFilter, on its body.            *)
RECURSIVE instantiateFilter(_, _, _)
instantiateFilter(node, d, filter_str) ==
    LET kind == Kind(node)
        each(items) == [k \in DOMAIN items |-> instantiateFilter(items[k], d, filter_str)]
    IN CASE kind = "Triple" -> Triple(node.subject, node.predicate, node.theobject)
         [] kind = "Service" -> ServiceInstantiateFilter(node, filter_str)
         [] kind = "UnionBlock" ->
              LET ts == each(node.triples.items)
              IN IF AnyRaised(ts) THEN Raised("AttributeError")
                 ELSE IF node.triples.islist
                      THEN JoinBlock(List(ts), FilterStr(filter_str), "")
                      ELSE ts[1]
         [] kind = "JoinBlock" ->
              LET ts == each(node.triples.items)
              IN IF AnyRaised(ts) THEN Raised("AttributeError")
                 ELSE IF node.triples.islist
                      THEN JoinBlock(List(ts), node.filters, filter_str)
                      ELSE ts[1]
         [] kind = "Optional" ->
              LET b == instantiateFilter(node.bgg, d, filter_str)
              IN IF IsRaised(b) THEN b ELSE Optional(b)
         [] kind = "Query" ->
              LET b == instantiate(node.body, d)
              IN IF IsRaised(b) THEN b
                 ELSE [node EXCEPT !.body = b,
                                   !.filter_nested = @ \o " " \o filter_str]
         [] OTHER -> Raised("AttributeError")

(* The receiver after self.instantiate(d).  Service and Query assign to     *)
(* their own fields, the other classes build a new node and leave self as  *)
(* it is, but for the Services and Queries below it, which the call        *)
(* reaches and changes in place.  A list is walked in order, so that the   *)
(* children after one that raises are not reached.                         *)
\* a bug: no node is changed in place
self_kept(node, d) == node

RECURSIVE self_after_instantiate(_, _)
self_after_instantiate(node, d) ==
    LET kind == Kind(node)
        each(items) ==
            [k \in DOMAIN items |->
                IF \E j \in 1..(k - 1) : IsRaised(instantiate(items[j], d))
                THEN items[k]
                ELSE self_after_instantiate(items[k], d)]
    IN CASE kind = "Service" ->
              LET new_triples == instantiate(node, d)
              IN IF IsRaised(new_triples) THEN [node EXCEPT !.triples.items = each(@)]
                 ELSE new_triples
         [] kind \in {"UnionBlock", "JoinBlock"} -> [node EXCEPT !.triples.items = each(@)]
         [] kind = "Optional" -> [node EXCEPT !.bgg = self_after_instantiate(@, d)]
         [] kind = "Query" ->
              LET b == instantiate(node.body, d)
              IN IF IsRaised(b) THEN [node EXCEPT !.body = self_after_instantiate(@, d)]
                 ELSE [node EXCEPT !.body = b]
         [] OTHER -> node

\* the receiver after self.instantiateFilter(d, filter_str)
RECURSIVE self_after_instantiateFilter(_, _, _)
self_after_instantiateFilter(node, d, filter_str) ==
    LET kind == Kind(node)
        each(items) ==
            [k \in DOMAIN items |->
                IF \E j \in 1..(k - 1) : IsRaised(instantiateFilter(items[j], d, filter_str))
                THEN items[k]
                ELSE self_after_instantiateFilter(items[k], d, filter_str)]
    IN CASE kind = "Service" -> ServiceInstantiateFilter(node, filter_str)
         [] kind \in {"UnionBlock", "JoinBlock"} -> [node EXCEPT !.triples.items = each(@)]
         [] kind = "Optional" ->
              [node EXCEPT !.bgg = self_after_instantiateFilter(@, d, filter_str)]
         [] kind = "Query" ->
              LET b == instantiate(node.body, d)
              IN IF IsRaised(b) THEN [node EXCEPT !.body = self_after_instantiate(@, d)]
                 ELSE [node EXCEPT !.body = b,
                                   !.filter_nested = @ \o " " \o filter_str]
         [] OTHER -> node

(* Expression.places, lines 1315-1319, for the operators of the model (no  *)
(* REGEX): the places of left for a unary functor, of both operands else.  *)
RECURSIVE ExpressionPlaces(_)
ExpressionPlaces(expr) ==
    IF Kind(expr) = "Argument" THEN 1
    ELSE IF expr.op \in unaryFunctor THEN ExpressionPlaces(expr.left)
    ELSE ExpressionPlaces(expr.left) + ExpressionPlaces(expr.right)

\* p = 0; for e in self.triples: p = p + e.places(), and the like
RECURSIVE places_of(_)
places_of(node) ==
    LET kind == Kind(node)
    IN CASE kind = "Argument" -> 1
         [] kind = "Triple" -> TriplePlaces(node)
         [] kind = "Filter" -> ExpressionPlaces(node.expr)
         [] kind \in {"Service", "UnionBlock", "JoinBlock"} ->
              SumFrom([k \in DOMAIN node.triples.items |->
                          places_of(node.triples.items[k])], 1, 0)
         [] kind = "Optional" -> places_of(node.bgg)
         [] kind = "Query" -> places_of(node.body)

\* a bug: a Filter counts its two operands as constants
FilterConstantNumberBoth(expr) == 2

\* Filter.constantNumber, lines 1254-1255
FilterConstantNumber(expr) == 1

RECURSIVE constantNumber_of(_)
constantNumber_of(node) ==
    LET kind == Kind(node)
    IN CASE kind = "Argument" -> IF node.constant THEN 1 ELSE 0
         [] kind = "Triple" -> TripleConstantNumber(node)
         [] kind = "Filter" -> FilterConstantNumber(node.expr)
         [] kind \in {"Service", "UnionBlock", "JoinBlock"} ->
              SumFrom([k \in DOMAIN node.triples.items |->
                          constantNumber_of(node.triples.items[k])], 1, 0)
         [] kind = "Optional" -> constantNumber_of(node.bgg)
         [] kind = "Query" -> constantNumber_of(node.body)

\* a value of constantPercentage: the quotient num/den, or the exception raised
Quotient(num, den) == [raised |-> "", num |-> num, den |-> den]
ZeroDivisionError == [raised |-> "ZeroDivisionError", num |-> 0, den |-> 0]

\* self.constantNumber()/self.places()
Divide(num, den) == IF den = 0 THEN ZeroDivisionError ELSE Quotient(num, den)

(* constantPercentage of every class: Service returns 0 when places() is   *)
(* 0, Filter returns 0.5, the others divide.                               *)
constantPercentage_of(node) ==
    LET kind == Kind(node)
    IN CASE kind = "Service" ->
              IF places_of(node) = 0 THEN Quotient(0, 1)
              ELSE Divide(constantNumber_of(node), places_of(node))
         [] kind = "Filter" -> Quotient(1, 2)
         [] OTHER -> Divide(constantNumber_of(node), places_of(node))


(***************************************************************************)
(* The trees and dictionaries the calls are made on.                       *)
(***************************************************************************)
VarX == Argument(<<"?">> \o X, FALSE)
VarY == Argument(<<"?">> \o Y, FALSE)
IriC == Argument(<<"<", "c", ">">>, TRUE)
Lit1 == Argument(<<"\"", "1", "\"">>, TRUE)

AstTriples ==
    {Triple(s, IriC, o) : s \in {VarX, VarY, IriC}, o \in {VarX, VarY, IriC}}
        \cup {Triple(VarX, VarY, IriC)}

\* FILTER (?x = "1"), FILTER (!?y), FILTER (?x = "1" && ?y = "1")
FilterEq == Filter(Expression("=", VarX, Lit1))
FilterNot == Filter(Expression("!", VarY, None))
FilterAnd ==
    Filter(Expression("&&", Expression("=", VarX, Lit1), Expression("=", VarY, Lit1)))

AstFilters == {FilterEq, FilterNot, FilterAnd}

AstFilterLists == {<<>>, <<FilterEq>>}

NoFilters == FilterList(<<>>)

\* the trees over one triple pattern t and one list fl of filters
TreesOver(t, fl) ==
    LET jb == JoinBlock(List(<<t>>), FilterList(fl), "")
        sv == Service(List(<<t>>), fl, <<>>)
        ub == UnionBlock(List(<<jb>>), NoFilters)
        su == Service(Single(ub), fl, <<>>)
    IN {t, jb, sv, ub, su,
        JoinBlock(List(<<t, FilterNot>>), NoFilters, ""),
        JoinBlock(List(<<sv>>), NoFilters, ""),
        JoinBlock(Single(t), NoFilters, ""),
        JoinBlock(List(<<t, Optional(UnionBlock(List(<<JoinBlock(List(<<sv>>), NoFilters, "")>>), NoFilters))>>),
                  NoFilters, ""),
        UnionBlock(List(<<jb, JoinBlock(List(<<sv>>), NoFilters, "")>>), FilterList(fl)),
        Optional(ub),
        Query(<<VarX>>, UnionBlock(List(<<JoinBlock(List(<<su>>), NoFilters, "")>>), NoFilters), ""),
        Query(<<VarX>>,
              UnionBlock(List(<<JoinBlock(List(<<t, Triple(VarY, VarX, IriC)>>), NoFilters, "")>>),
                         NoFilters), "")}

\* the trees without a triple pattern
EmptyTrees ==
    LET ub == UnionBlock(List(<<>>), NoFilters)
    IN {ub, JoinBlock(List(<<>>), NoFilters, ""), Service(List(<<>>), <<>>, <<>>),
        Optional(ub), Query(<<>>, ub, "")}

AstNodes ==
    UNION {TreesOver(t, fl) : t \in AstTriples, fl \in AstFilterLists}
        \cup EmptyTrees \cup AstFilters \cup {VarX, IriC}

\* the dictionaries d: variable names without '?', and the terms they are bound to
Dictionaries ==
    {[k \in {X} |-> <<"<", "a", ">">>],
     [k \in {Y} |-> <<"<", "b", ">">>],
     [k \in {X, Y} |-> IF k = X THEN <<"?">> \o Y ELSE <<"<", "b", ">">>],
     [k \in {Z} |-> <<"<", "a", ">">>]}

\* the strings filter_str of the calls
FilterStrings == {"f1", "f2"}

InitAst ==
    /\ tree \in AstNodes
    /\ dict \in Dictionaries
    /\ trace = <<>>

IdleAst ==
    /\ tree = None
    /\ dict = EmptyMap
    /\ trace = <<>>

(* one call on tree: the receiver before and after it, and what it returns *)
Call(method, filter_str, after, result) ==
    [method |-> method, filter_str |-> filter_str, self |-> tree, after |-> after,
     result |-> result]

\* tree = tree.instantiate(d)
Instantiate ==
    /\ Len(trace) < MaxCalls
    /\ ~IsRaised(tree)
    /\ tree' = instantiate(tree, dict)
    /\ trace' = Append(trace, Call("instantiate", "", self_after_instantiate(tree, dict), tree'))
    /\ UNCHANGED dict

\* tree = tree.instantiateFilter(d, filter_str)
InstantiateFilter ==
    /\ Len(trace) < MaxCalls
    /\ ~IsRaised(tree)
    /\ \E filter_str \in FilterStrings :
          /\ tree' = instantiateFilter(tree, dict, filter_str)
          /\ trace' = Append(trace, Call("instantiateFilter", filter_str,
                                       self_after_instantiateFilter(tree, dict, filter_str), tree'))
    /\ UNCHANGED dict

\* tree.constantPercentage()
ConstantPercentage ==
    /\ Len(trace) < MaxCalls
    /\ ~IsRaised(tree)
    /\ trace' = Append(trace, Call("constantPercentage", "", tree, constantPercentage_of(tree)))
    /\ UNCHANGED <<tree, dict>>


(***************************************************************************)
(* TermMap2SQL: the translation of an RML term map and a SPARQL Argument   *)
(* into an SQL term, a projection and filter conditions.                   *)
(*                                                                         *)
(* Strings are sequences of characters, the backquote written out as a     *)
(* word.  TermMap, its columns and split_template, and the SQL classes are *)
(* the containers the translator fills: a term map carries the segments    *)
(* and the columns of its value.                                           *)
(***************************************************************************)
\* TermMap(value, resource_type, term_type), with split_template() and columns
TermMap(value, resource_type, term_type, split, columns) ==
    [value |-> value, resource_type |-> resource_type, term_type |-> term_type,
     split |-> split, columns |-> columns]

\* SQLColumn(name, table_alias, schema)
SQLColumn(name) == [kind |-> "SQLColumn", name |-> name]

\* SQLFunction(name, args, columns=...)
SQLFunction(name, args, columns) ==
    [kind |-> "SQLFunction", name |-> name, args |-> args, columns |-> columns]

\* SQLCondition(left, opr, right)
SQLCondition(lhs, opr, rhs) == [kind |-> "SQLCondition", left |-> lhs, opr |-> opr, right |-> rhs]

\* SQLCondition(False)
SQLConditionFalse == SQLCondition([kind |-> "False"], "", <<>>)

\* a string as the left operand of an SQLCondition
SQLString(s) == [kind |-> "str", value |-> s]

\* SQLAndCondition(conditions)
SQLAndCondition(conditions) == [kind |-> "SQLAndCondition", conditions |-> conditions]

\* SQLSelectExpression(term, alias)
SQLSelectExpression(t, alias) == [kind |-> "SQLSelectExpression", term |-> t, alias |-> alias]

\* a string between single quotes, and between backquotes
Quoted(s) == <<"'">> \o s \o <<"'">>
Backticked(s) == <<"backquote">> \o s \o <<"backquote">>

\* TermMap2SQL.get_expr(expressions)
RECURSIVE get_expr_from(_, _, _)
get_expr_from(expressions, k, expr) ==
    IF k > Len(expressions) THEN expr
    ELSE LET template == expressions[k]
         IN get_expr_from(expressions, k + 1,
               IF Len(template) > 1
               THEN IF Len(template[1]) > 0
                    THEN expr \o <<Quoted(template[1]), Backticked(template[2])>>
                    ELSE Append(expr, Backticked(template[2]))
               ELSE IF Len(template) = 1 THEN Append(expr, Quoted(template[1]))
               ELSE expr)

get_expr(expressions) == get_expr_from(expressions, 1, <<>>)

\* term = SQLFunction('CONCAT', expr, columns=cols) if len(expr) > 1 else SQLColumn(expr[0])
ConcatOrColumn(expr, columns) ==
    IF Len(expr) > 1
    THEN SQLFunction("CONCAT", expr, [k \in DOMAIN columns |-> SQLColumn(Backticked(columns[k]))])
    ELSE SQLColumn(expr[1])

\* TermMap2SQL.get_sql_term(term_map): the term and the result template
get_sql_term(tm) ==
    IF tm.resource_type = "TEMPLATE"
    THEN LET bnode == tm.term_type = "BNode" /\ Len(tm.split) > 0
             temp_split == IF bnode
                           THEN [tm.split EXCEPT ![1][1] = <<"_", ":">> \o @]
                           ELSE tm.split
         IN [term |-> IF Len(temp_split) > 0
                      THEN ConcatOrColumn(get_expr(temp_split), tm.columns)
                      ELSE None,
             template |-> [type |-> IF bnode THEN "bnode" ELSE "uri", value |-> <<>>]]
    ELSE IF tm.resource_type = "REFERENCE"
    THEN IF tm.term_type = "BNode"
         THEN [term |-> ConcatOrColumn(get_expr(<<<<<<"_", ":">>, tm.value>>>>), tm.columns),
               template |-> [type |-> "bnode", value |-> <<>>]]
         ELSE [term |-> SQLColumn(tm.value),
               template |-> [type |-> IF tm.term_type = "IRI" THEN "uri" ELSE "literal",
                             value |-> <<>>]]
    ELSE [term |-> None,
          template |-> [type |-> IF tm.term_type = "BNode" THEN "bnode"
                                 ELSE IF tm.term_type = "Literal" THEN "literal" ELSE "uri",
                        value |-> tm.value]]

\* get_filter_condition, lines 205-210: rdf_term_value
RdfTermValue(name, term_type) ==
    IF term_type # "BNode"
    THEN IF name[1] \in {"\"", "<", "'"}
         THEN Quoted(SubSeq(name, 2, Len(name) - 1))
         ELSE Quoted(name)
    ELSE name

\* TermMap2SQL.get_filter_condition, with self.term t and self.sparql_result_template
get_filter_condition(tm, arg, opr, t, template) ==
    IF ~arg.constant THEN None
    ELSE LET rdf_term_value == RdfTermValue(arg.name, tm.term_type)
         IN IF t # None
            THEN SQLAndCondition(<<SQLCondition(t, opr, rdf_term_value)>>)
            ELSE IF opr = "="
                 THEN IF template.value = rdf_term_value THEN None
                      ELSE SQLAndCondition(<<SQLConditionFalse>>)
                 ELSE SQLAndCondition(<<SQLCondition(SQLString(Quoted(template.value)), opr,
                                                     rdf_term_value)>>)

\* TermMap2SQL.get_bound_columns
get_bound_columns(tm, arg) ==
    IF arg.constant THEN None
    ELSE SQLAndCondition([k \in DOMAIN tm.columns |->
            SQLCondition(SQLColumn(tm.columns[k]), " IS NOT ", <<"N", "U", "L", "L">>)])

\* a bug: the alias keeps the leading '?'
get_projections_whole_name(arg, t) ==
    IF arg.constant THEN None
    ELSE IF t # None THEN SQLSelectExpression(t, arg.name) ELSE None

\* TermMap2SQL.get_projections, with self.term t
get_projections(arg, t) ==
    IF arg.constant THEN None
    ELSE IF t # None THEN SQLSelectExpression(t, Tail(arg.name)) ELSE None

\* the term maps: constant values, a column reference, templates of 0, 1 and 2 segments
TermTypes == {"IRI", "Literal", "BNode"}

ConstantValues == {<<"A">>, <<"'", "A", "'">>, <<"_", ":", "A">>}

TemplateSplits ==
    {[split |-> <<>>, columns |-> <<>>],
     [split |-> <<<<<<>>, <<"n">>>>>>, columns |-> <<<<"n">>>>],
     [split |-> <<<<<<"h">>, <<"n">>>>>>, columns |-> <<<<"n">>>>],
     [split |-> <<<<<<"h">>, <<"n">>>>, <<<<"/">>, <<"m">>>>>>, columns |-> <<<<"n">>, <<"m">>>>]}

TermMaps ==
    {TermMap(v, "CONSTANT", tt, <<>>, <<>>) : v \in ConstantValues, tt \in TermTypes}
        \cup {TermMap(<<"n">>, "REFERENCE", tt, <<>>, <<<<"n">>>>) : tt \in TermTypes}
        \cup {TermMap(<<"t">>, "TEMPLATE", tt, s.split, s.columns) :
                 s \in TemplateSplits, tt \in TermTypes}

\* the Arguments: variables, and constants in and without quotes or angle brackets
RdfTerms ==
    {Argument(<<"?", "v">>, FALSE), Argument(<<"?", "n", "v">>, FALSE)}
        \cup {Argument(n, TRUE) : n \in {<<"\"", "A", "\"">>, <<"<", "A", ">">>,
                                          <<"'", "A", "'">>, <<"A">>, <<"_", ":", "A">>,
                                          <<"\"", "O", "\"">>}}

ComparisonOperators == {"=", ">"}

\* TermMap2SQL.__init__ up to the call of _process_term_map
InitTM ==
    /\ term_map \in TermMaps
    /\ rdf_term \in RdfTerms
    /\ comparision_opr \in ComparisonOperators
    /\ term = None
    /\ projection = None
    /\ filter_conditions = None
    /\ sparql_result_template = EmptyMap
    /\ processed = FALSE

IdleTM ==
    /\ term_map = None
    /\ rdf_term = None
    /\ comparision_opr = "="
    /\ term = None
    /\ projection = None
    /\ filter_conditions = None
    /\ sparql_result_template = EmptyMap
    /\ processed = FALSE

\* TermMap2SQL._process_term_map
ProcessTermMap ==
    LET got == get_sql_term(term_map)
    IN /\ ~processed
       /\ term_map # None
       /\ term' = got.term
       /\ IF rdf_term.constant
          THEN /\ filter_conditions' =
                     get_filter_condition(term_map, rdf_term, comparision_opr, got.term,
                                          got.template)
               /\ sparql_result_template' = EmptyMap
               /\ projection' = None
          ELSE /\ filter_conditions' = get_bound_columns(term_map, rdf_term)
               /\ projection' = get_projections(rdf_term, got.term)
               /\ sparql_result_template' = got.template
       /\ processed' = TRUE
       /\ UNCHANGED <<term_map, rdf_term, comparision_opr>>


(***************************************************************************)
(* Triple.__lt__: the order of triple patterns.                            *)
(***************************************************************************)
\* the patterns compared: a variable or a constant at every position
LtTriples ==
    {Triple(s, p, o) : s \in {VarX, VarY, IriC}, p \in {VarX, VarY, IriC},
                       o \in {VarX, VarY, IriC}}

\* a bug: the cascade of Service.__lt__ on the constants of subject and predicate
TripleLtSubjectPredicate(self, other) ==
    LET sp(t) == TripleConstSubjects(t) + TripleConstPredicates(t)
    IN IF sp(other) > sp(self) THEN FALSE
       ELSE IF sp(self) > sp(other) THEN TRUE
       ELSE IF other.subject.constant /\ ~self.subject.constant THEN FALSE
       ELSE IF self.subject.constant /\ ~other.subject.constant THEN TRUE
       ELSE TripleConstantNumber(self) * TriplePlaces(other)
                > TripleConstantNumber(other) * TriplePlaces(self)

\* Triple.__lt__(self, other), lines 1079-1093
TripleLt(self, other) ==
    IF other.subject.constant /\ ~self.subject.constant THEN FALSE
    ELSE IF self.subject.constant /\ ~other.subject.constant THEN TRUE
    ELSE IF other.predicate.constant /\ self.predicate.constant
            /\ other.theobject.constant /\ ~self.theobject.constant THEN FALSE
    ELSE IF other.predicate.constant /\ self.predicate.constant
            /\ self.theobject.constant /\ ~other.theobject.constant THEN TRUE
    ELSE TripleConstantNumber(self) * TriplePlaces(other)
             > TripleConstantNumber(other) * TriplePlaces(self)

\* no Triple is built yet
InitTri ==
    /\ patterns = {}
    /\ tlt = EmptyMap

IdleTri ==
    /\ patterns = {}
    /\ tlt = EmptyMap

\* one more Triple is built, and every pair of the patterns built is compared
AddTriple ==
    /\ Cardinality(patterns) < MaxPatterns
    /\ \E t \in LtTriples \ patterns :
        /\ patterns' = patterns \cup {t}
        /\ tlt' = [pair \in patterns' \X patterns' |->
                     IF pair \in DOMAIN tlt THEN tlt[pair] ELSE TripleLt(pair[1], pair[2])]


(***************************************************************************)
(* The specifications: one for each part of the program.                   *)
(***************************************************************************)
\* no stream between two workers
IdlePipe == capacity = 0

InitSpecNLO == InitNLO /\ IdleXP /\ InitSvc /\ IdleAst /\ IdleTM /\ IdleTri /\ IdlePipe

NextNLO ==
    \/ GetLeft /\ UNCHANGED <<xpVars, svcVars, astVars, tmVars, triVars, pipeVars>>
    \/ InsertAndProbe /\ UNCHANGED <<xpVars, svcVars, astVars, tmVars, triVars, pipeVars>>
    \/ PutResult /\ UNCHANGED <<xpVars, svcVars, astVars, tmVars, triVars, pipeVars>>
    \/ PutEOF /\ UNCHANGED <<xpVars, svcVars, astVars, tmVars, triVars, pipeVars>>

SpecNLO == InitSpecNLO /\ [][NextNLO]_vars_all

(* execute as a running worker: it takes its next step whenever it has     *)
(* one.  The left stream delivers EOF after at most MaxLeft tuples, a      *)
(* call of the source is answered within the step that makes it, and a     *)
(* put on the output never blocks.                                         *)
SpecNLOFair == InitSpecNLO /\ [][NextNLO]_vars_all /\ WF_vars_all(NextNLO)

NextXP ==
    \/ XGet /\ UNCHANGED <<nloVars, svcVars, astVars, tmVars, triVars, pipeVars>>
    \/ XPut /\ UNCHANGED <<nloVars, svcVars, astVars, tmVars, triVars, pipeVars>>
    \/ XPutEOF /\ UNCHANGED <<nloVars, svcVars, astVars, tmVars, triVars, pipeVars>>

InitSpecXP == IdleNLO /\ InitXP /\ InitSvc /\ IdleAst /\ IdleTM /\ IdleTri /\ IdlePipe

SpecXP == InitSpecXP /\ [][NextXP]_vars_all

NextSvc == AddService /\ UNCHANGED <<nloVars, xpVars, astVars, tmVars, triVars, pipeVars>>

InitSpecSvc == IdleNLO /\ IdleXP /\ InitSvc /\ IdleAst /\ IdleTM /\ IdleTri /\ IdlePipe

SpecSvc == InitSpecSvc /\ [][NextSvc]_vars_all

NextAst ==
    \/ Instantiate /\ UNCHANGED <<nloVars, xpVars, svcVars, tmVars, triVars, pipeVars>>
    \/ InstantiateFilter /\ UNCHANGED <<nloVars, xpVars, svcVars, tmVars, triVars, pipeVars>>
    \/ ConstantPercentage /\ UNCHANGED <<nloVars, xpVars, svcVars, tmVars, triVars, pipeVars>>

InitSpecAst == IdleNLO /\ IdleXP /\ InitSvc /\ InitAst /\ IdleTM /\ IdleTri /\ IdlePipe

SpecAst == InitSpecAst /\ [][NextAst]_vars_all

NextTM == ProcessTermMap /\ UNCHANGED <<nloVars, xpVars, svcVars, astVars, triVars, pipeVars>>

InitSpecTM == IdleNLO /\ IdleXP /\ InitSvc /\ IdleAst /\ InitTM /\ IdleTri /\ IdlePipe

SpecTM == InitSpecTM /\ [][NextTM]_vars_all

NextTri == AddTriple /\ UNCHANGED <<nloVars, xpVars, svcVars, astVars, tmVars, pipeVars>>

InitSpecTri == IdleNLO /\ IdleXP /\ InitSvc /\ IdleAst /\ IdleTM /\ InitTri /\ IdlePipe

SpecTri == InitSpecTri /\ [][NextTri]_vars_all

(* The pipeline: NestedLoopOptional.execute and Xproject.execute run as    *)
(* two workers, the output stream of the first (self.qresults) being the   *)
(* input stream of the second (self.left), a stream that holds at most     *)
(* capacity items: a put on the full stream blocks, as a get on the empty  *)
(* one does.                                                               *)
\* the projection lists of the pipeline: empty, and ?x
PipeVarsChoices == {<<>>, <<Argument(<<"?">> \o X, FALSE)>>}

InitPipe ==
    /\ xvars \in PipeVarsChoices
    /\ xlimit \in (-1)..MaxPipeLimit
    /\ xleft = <<>>
    /\ xin = <<>>
    /\ xtuple = EOF
    /\ xi = 0
    /\ xout = <<>>
    /\ xpc = "get"
    /\ xreads = 0
    /\ capacity \in 1..MaxCapacity

\* the item put last on the output of NestedLoopOptional goes on the stream
PipePut ==
    /\ Len(xleft) < capacity
    /\ xleft' = Append(xleft, out'[Len(out')])
    /\ xin' = Append(xin, out'[Len(out')])
    /\ UNCHANGED <<xvars, xlimit, xtuple, xi, xout, xpc, xreads>>

\* NestedLoopOptional.execute, lines 52-53, on the bounded stream
PipePutResult == PutResult /\ PipePut

\* NestedLoopOptional.execute, line 56, on the bounded stream
PipePutEOF == PutEOF /\ PipePut

\* the steps of the worker that runs NestedLoopOptional.execute
NextPipeNLO ==
    \/ GetLeft /\ UNCHANGED <<xpVars, svcVars, astVars, tmVars, triVars, pipeVars>>
    \/ InsertAndProbe /\ clock' = 0
          /\ UNCHANGED <<xpVars, svcVars, astVars, tmVars, triVars, pipeVars>>
    \/ PipePutResult /\ UNCHANGED <<svcVars, astVars, tmVars, triVars, pipeVars>>
    \/ PipePutEOF /\ UNCHANGED <<svcVars, astVars, tmVars, triVars, pipeVars>>

NextPipe == NextPipeNLO \/ NextXP

InitSpecPipe == InitNLO /\ InitPipe /\ InitSvc /\ IdleAst /\ IdleTM /\ IdleTri

(* Each worker is a process of its own and takes its next step whenever it *)
(* has one: weak fairness of each.                                         *)
SpecPipe ==
    InitSpecPipe /\ [][NextPipe]_vars_all
        /\ WF_vars_all(NextPipeNLO) /\ WF_vars_all(NextXP)

(***************************************************************************)
(* Properties of NestedLoopOptional.execute.                               *)
(***************************************************************************)
\* l and r agree on every join variable
Matches(ltuple, rtuple, vs) ==
    \A k \in 1..Len(vs) : vs[k] \in DOMAIN rtuple /\ ltuple[vs[k]] = rtuple[vs[k]]

\* the results appended for the l-th left tuple
EmittedFor(l) == {k \in DOMAIN emitted : emitted[k].l = l}

\* the l-th left tuple, with the empty string for the attributes it does not bind
Padded(l) ==
    [v \in (DOMAIN lin[l]) \cup atts |-> IF v \in DOMAIN lin[l] THEN lin[l][v] ELSE ""]

(* C1: with a non-empty set of join variables, execute raises nothing, and *)
(* once it has put EOF every left tuple has at least one tuple of its own  *)
(* on the output, so that the output holds at least as many tuples as the  *)
(* left input.                                                             *)
C1_OptionalPreservation ==
    vars # <<>> =>
        /\ pc # "error"
        /\ pc = "done" =>
            /\ \A l \in 1..Len(lin) :
                \E k \in EmittedFor(l) :
                    k \in DOMAIN out /\ out[k] = Tup(emitted[k].tuple)
            /\ Cardinality({k \in DOMAIN out : ~out[k].eof}) >= Len(lin)

\* a run of two left tuples, one answered by the optional branch, one from R
C1_Witness ==
    /\ pc = "done" /\ vars # <<>> /\ Len(lin) >= 2
    /\ \E c \in DOMAIN calls : calls[c].eof
    /\ \E k \in DOMAIN emitted : emitted[k].how = "local"

C4_EmptyPadding ==
    \A c \in DOMAIN calls :
        calls[c].eof =>
            /\ Cardinality(EmittedFor(calls[c].l)) = 1
            /\ \A k \in EmittedFor(calls[c].l) :
                /\ emitted[k].tuple = Padded(calls[c].l)
                /\ pc = "done" => out[k] = Tup(Padded(calls[c].l))

\* the source had no answer for a left tuple that binds an attribute of right.atts
C4_Witness ==
    /\ pc = "done"
    /\ \E c \in DOMAIN calls :
        calls[c].eof /\ atts \cap DOMAIN lin[calls[c].l] # {}

(* C5: when the call for a left tuple l1 was answered by EOF alone, a      *)
(* later left tuple l2 with the join bindings of l1 causes no call and     *)
(* produces exactly one tuple: the bindings of l2, and the empty string    *)
(* for the attributes of right.atts it does not bind.                      *)
C5_CachedEmptyTuple ==
    (pc = "done" /\ vars # <<>>) =>
        \A c \in DOMAIN calls :
            calls[c].eof =>
                \A l2 \in (calls[c].l + 1)..Len(lin) :
                    Restrict(lin[l2], Range(vars)) = Restrict(lin[calls[c].l], Range(vars)) =>
                        /\ ~(\E c2 \in DOMAIN calls : calls[c2].l = l2)
                        /\ Cardinality(EmittedFor(l2)) = 1
                        /\ \A k \in EmittedFor(l2) : emitted[k].tuple = Padded(l2)

(* C6: no EOF is on the output before execute is done; until then the      *)
(* output followed by the result buffer is the sequence of the results     *)
(* produced; when execute is done the buffer is empty and the output is    *)
(* every result produced, once, followed by one EOF.                       *)
C6_OneEOFLast ==
    LET produced == [k \in DOMAIN emitted |-> Tup(emitted[k].tuple)]
    IN /\ pc # "done" =>
            /\ \A k \in DOMAIN out : ~out[k].eof
            /\ out \o [k \in DOMAIN results |-> Tup(results[k])] = produced
       /\ pc = "done" =>
            /\ results = <<>>
            /\ out = produced \o <<EOF>>

\* execute is done and has put at least two results before EOF
C6_Witness == pc = "done" /\ Len(out) >= 3 /\ out[Len(out)].eof

(***************************************************************************)
(* Properties of Xproject.execute.                                         *)
(***************************************************************************)
\* the number of mappings on the input before its EOF
XInputCount == Len(xin) - 1

\* the names of the projection list, first character stripped
XNames == {Tail(xvars[k].name) : k \in DOMAIN xvars}

\* the projection of the k-th input mapping
XExpected(k) ==
    Tup([v \in XNames |-> IF v \in DOMAIN xin[k].m THEN xin[k].m[v] ELSE ""])

Min(a, b) == IF a <= b THEN a ELSE b

(* C7: with a non-empty projection list, the output of a finished execute  *)
(* is the projections of the first min(L, n) input mappings in order, then *)
(* EOF, for a limit L >= 0; and the projections of all n, then EOF, for    *)
(* L = -1.                                                                 *)
C7_ProjectLimit ==
    (xpc = "done" /\ xvars # <<>>) =>
        /\ xlimit >= 0 =>
            xout = [k \in 1..Min(xlimit, XInputCount) |-> XExpected(k)] \o <<EOF>>
        /\ xlimit = -1 =>
            xout = [k \in 1..XInputCount |-> XExpected(k)] \o <<EOF>>

(* C8: with an empty projection list, whatever the limit, the output is at *)
(* any time a prefix of the input, and the whole input, EOF included, when *)
(* execute is done.                                                        *)
C8_EmptyProjectionForwards ==
    xvars = <<>> =>
        /\ Len(xout) <= Len(xin)
        /\ \A k \in DOMAIN xout : xout[k] = xin[k]
        /\ xpc = "done" => xout = xin

\* a finished run with an empty projection list and a limit the input exceeds
C8_Witness ==
    /\ xpc = "done" /\ xvars = <<>>
    /\ xlimit >= 1 /\ XInputCount > xlimit
    /\ Len(xout) = XInputCount + 1

(***************************************************************************)
(* Properties of Service.__lt__.                                           *)
(***************************************************************************)
(* C9: for no Service s does s < s hold, and for no two Services do both   *)
(* s1 < s2 and s2 < s1 hold.                                               *)
C9_LtIrreflexiveAsymmetric ==
    \A s1, s2 \in services : ~(lt[<<s1, s2>>] /\ lt[<<s2, s1>>])

\* C10: a < b and b < c imply a < c
C10_LtTransitive ==
    \A a, b, c \in services :
        (lt[<<a, b>>] /\ lt[<<b, c>>]) => lt[<<a, c>>]

\* three services in a strict chain: a < b < c, and neither b < a nor c < b
C10_Witness ==
    \E a, b, c \in services :
        /\ lt[<<a, b>>] /\ lt[<<b, c>>] /\ lt[<<a, c>>]
        /\ ~lt[<<b, a>>] /\ ~lt[<<c, b>>]
        /\ places(a) # places(b)

(* C11 as stated: with equal sums of constant subjects and predicates, s1 < *)
(* s2 is false whenever s1 has more constant subjects than s2.             *)
C11_MoreSubjectsNotLess ==
    \A s1, s2 \in services :
        (/\ const_subjects(s1) + const_predicates(s1)
               = const_subjects(s2) + const_predicates(s2)
         /\ const_subjects(s1) > const_subjects(s2)) => ~lt[<<s1, s2>>]

(* C11 amended: with equal sums of constant subjects and predicates, the   *)
(* Service with more constant subjects is the lesser one: s1 < s2 is true  *)
(* and s2 < s1 is false.                                                   *)
C11_MoreSubjectsLess ==
    \A s1, s2 \in services :
        (/\ const_subjects(s1) + const_predicates(s1)
               = const_subjects(s2) + const_predicates(s2)
         /\ const_subjects(s1) > const_subjects(s2))
            => (lt[<<s1, s2>>] /\ ~lt[<<s2, s1>>])

\* the Services of the example: constants (1, 1, 0) and (0, 2, 1) by position
C11_Witness ==
    \E s1, s2 \in services :
        /\ Counts(s1) = [S |-> 1, P |-> 1, O |-> 0]
        /\ Counts(s2) = [S |-> 0, P |-> 2, O |-> 1]
        /\ lt[<<s1, s2>>] /\ ~lt[<<s2, s1>>]

(***************************************************************************)
(* More properties of NestedLoopOptional.execute.                          *)
(***************************************************************************)
\* the number of records in L: one for each call of insertAndProbe
Probed == LET RECURSIVE Sum(_)
              Sum(p) == IF p < 0 THEN 0 ELSE Len(left_table[p]) + Sum(p - 1)
          IN Sum(TableSize - 1)

C20_CachedRecordUntouched ==
    \A k \in DOMAIN emitted :
        emitted[k].how = "optional" =>
            right_table[emitted[k].p][emitted[k].r].tuple = EmptyRight(atts)

(***************************************************************************)
(* Properties of the algebra tree.                                         *)
(***************************************************************************)
\* the variables of an expression, of a list of filters and of a tree
RECURSIVE ExpressionVariables(_)
ExpressionVariables(expr) ==
    CASE Kind(expr) = "None" -> {}
      [] Kind(expr) = "Argument" -> IF expr.constant THEN {} ELSE {expr.name}
      [] OTHER -> ExpressionVariables(expr.left) \cup ExpressionVariables(expr.right)

FilterVariables(fs) == UNION {ExpressionVariables(fs[k].expr) : k \in DOMAIN fs}

RECURSIVE TreeVariables(_)
TreeVariables(n) ==
    LET kind == Kind(n)
        below == UNION {TreeVariables(n.triples.items[k]) : k \in DOMAIN n.triples.items}
    IN CASE kind = "Argument" -> IF n.constant THEN {} ELSE {n.name}
         [] kind = "Triple" ->
              {a.name : a \in {a \in {n.subject, n.predicate, n.theobject} : ~a.constant}}
         [] kind = "Filter" -> ExpressionVariables(n.expr)
         [] kind = "Service" -> below \cup FilterVariables(n.filters)
         [] kind \in {"UnionBlock", "JoinBlock"} -> below \cup FilterVariables(n.filters.items)
         [] kind = "Optional" -> TreeVariables(n.bgg)
         [] kind = "Query" -> TreeVariables(n.body)
         [] OTHER -> {}

(* C12: after instantiate(d), no variable whose name without its leading   *)
(* '?' or '$' is a key of d remains anywhere in the tree returned, its     *)
(* triples and its filters included.                                       *)
C12_NoBoundVariableRemains ==
    \A k \in DOMAIN trace :
        trace[k].method = "instantiate" /\ ~IsRaised(trace[k].result)
            => \A v \in TreeVariables(trace[k].result) : LStrip(v) \notin DOMAIN dict

(* C13: instantiate is idempotent: instantiate(d) called on the tree that  *)
(* instantiate(d) returned gives a tree equal to it, node by node and      *)
(* argument by argument.                                                   *)
C13_InstantiateIdempotent ==
    \A k \in DOMAIN trace :
        /\ k > 1
        /\ trace[k].method = "instantiate"
        /\ trace[k - 1].method = "instantiate"
        => trace[k].result = trace[k - 1].result

\* instantiate was called twice, and the first call replaced a variable
C13_Witness ==
    /\ Len(trace) = 2
    /\ trace[1].method = "instantiate" /\ trace[2].method = "instantiate"
    /\ Kind(trace[1].self) = "Query"
    /\ trace[1].result # trace[1].self
    /\ dict = [k \in {X, Y} |-> IF k = X THEN <<"?">> \o Y ELSE <<"<", "b", ">">>]

(* C14: constantPercentage called on a Query, Service, UnionBlock,         *)
(* JoinBlock or Optional whose places() is 0 returns 0 and does not fail   *)
(* with a division by zero.                                                *)
C14_ZeroWhenNoPlaces ==
    \A k \in DOMAIN trace :
        /\ trace[k].method = "constantPercentage"
        /\ Kind(trace[k].self) \in {"Query", "Service", "UnionBlock", "JoinBlock", "Optional"}
        /\ places_of(trace[k].self) = 0
        => trace[k].result.raised = "" /\ trace[k].result.num = 0

\* the calls of constantPercentage on a node of one of the kinds, with places() > 0
PercentageCalls(kinds) ==
    {k \in DOMAIN trace : /\ trace[k].method = "constantPercentage"
                          /\ Kind(trace[k].self) \in kinds
                          /\ places_of(trace[k].self) > 0}

\* the value returned is constantNumber()/places(), and it lies in [0,1]
IsQuotientOfPlaces(call) ==
    /\ call.result.raised = ""
    /\ call.result.num * places_of(call.self) = constantNumber_of(call.self) * call.result.den
    /\ 0 <= call.result.num /\ call.result.num <= call.result.den

RECURSIVE ServicesOf(_)
ServicesOf(n) ==
    LET kind == Kind(n)
        below == UNION {ServicesOf(n.triples.items[k]) : k \in DOMAIN n.triples.items}
    IN CASE kind = "Service" -> {n} \cup below
         [] kind \in {"UnionBlock", "JoinBlock"} -> below
         [] kind = "Optional" -> ServicesOf(n.bgg)
         [] kind = "Query" -> ServicesOf(n.body)
         [] OTHER -> {}

\* the strings given to the calls of instantiateFilter, up to call k
FilterStringsUpTo(k) ==
    LET calls_k == SelectSeq(SubSeq(trace, 1, k), LAMBDA c : c.method = "instantiateFilter")
    IN [j \in DOMAIN calls_k |-> calls_k[j].filter_str]

(* C16: instantiateFilter(d, filter_str) on a Query, UnionBlock,           *)
(* JoinBlock, Optional or Service appends filter_str to filter_nested of   *)
(* every Service reachable from the node and keeps the entries already     *)
(* there: after the calls with f1 and then f2, filter_nested of each such  *)
(* Service is f1 followed by f2.                                           *)
C16_FilterNestedAppended ==
    \A k \in DOMAIN trace :
        /\ trace[k].method = "instantiateFilter"
        /\ Kind(trace[k].self) \in {"Query", "UnionBlock", "JoinBlock", "Optional", "Service"}
        /\ ~IsRaised(trace[k].result)
        => \A s \in ServicesOf(trace[k].result) : s.filter_nested = FilterStringsUpTo(k)

(***************************************************************************)
(* Properties of TermMap2SQL.                                              *)
(***************************************************************************)
\* the lexical value of a constant Argument without its outer quotes or angle brackets
LexicalValue(name) ==
    IF name[1] \in {"\"", "<", "'"} THEN SubSeq(name, 2, Len(name) - 1) ELSE name

(* C17: for a CONSTANT term map and a constant Argument compared with '=', *)
(* the filter is decided at translation time: no condition when the        *)
(* Argument's lexical value, outer quotes or angle brackets removed,       *)
(* equals the constant value of the term map, the false condition          *)
(* otherwise.                                                              *)
C17_ConstantResolved ==
    (/\ processed
     /\ term_map.resource_type = "CONSTANT"
     /\ rdf_term.constant
     /\ comparision_opr = "=")
        => IF LexicalValue(rdf_term.name) = term_map.value
           THEN filter_conditions = None
           ELSE filter_conditions = SQLAndCondition(<<SQLConditionFalse>>)

\* one IS NOT NULL condition for each column of the term map, in their order
BoundColumns ==
    /\ filter_conditions.kind = "SQLAndCondition"
    /\ Len(filter_conditions.conditions) = Len(term_map.columns)
    /\ \A k \in DOMAIN term_map.columns :
          filter_conditions.conditions[k] =
              SQLCondition(SQLColumn(term_map.columns[k]), " IS NOT ", <<"N", "U", "L", "L">>)

Merged(loser, winner) ==
    [key \in (DOMAIN loser) \cup (DOMAIN winner) |->
        IF key \in DOMAIN winner THEN winner[key] ELSE loser[key]]

(* C21: a local match emits the left tuple merged with the cached record,  *)
(* the record's value on every key both bind; a remote-contact join emits  *)
(* the remote tuple merged with the left tuple, the left tuple's value on  *)
(* every key both bind; and the record cached for a remote tuple is the    *)
(* remote tuple with its join variables, and only them, set to the left    *)
(* tuple's values.                                                         *)
C21_MergeAsymmetry ==
    \A k \in DOMAIN emitted :
        LET e == emitted[k]
            ltuple == lin[e.l]
            cached == right_table[e.p][e.r].tuple
        IN /\ e.how = "local" => e.tuple = Merged(ltuple, cached)
           /\ e.how = "remote" =>
                /\ e.tuple = Merged(e.rtuple, ltuple)
                /\ DOMAIN cached = (DOMAIN e.rtuple) \cup Range(vars)
                /\ \A key \in DOMAIN cached :
                      cached[key] = IF key \in Range(vars) THEN ltuple[key]
                                    ELSE e.rtuple[key]

(* a remote tuple and a left tuple that differ on a key that is no join    *)
(* variable, joined remotely, and the cached record then matched locally   *)
(* by a left tuple that differs from it on that key                        *)
C21_Witness ==
    \E k1, k2 \in DOMAIN emitted :
        /\ emitted[k1].how = "remote" /\ emitted[k2].how = "local"
        /\ emitted[k1].p = emitted[k2].p /\ emitted[k1].r = emitted[k2].r
        /\ Y \notin Range(vars)
        /\ Y \in DOMAIN emitted[k1].rtuple
        /\ emitted[k1].rtuple[Y] # lin[emitted[k1].l][Y]
        /\ emitted[k1].tuple[Y] = lin[emitted[k1].l][Y]
        /\ emitted[k2].tuple[Y] # lin[emitted[k2].l][Y]

(* C22: for every set of join variables, the empty one included, the step  *)
(* that probes a left tuple raises nothing and appends a local result for  *)
(* exactly the cached records of the partition that agree with the tuple   *)
(* on all join variables: with no join variables, for every record.        *)
C22_MatchTestForEveryJoinSet ==
    [][pc = "probe" =>
        LET tuple == Head(left).m
            i == hashfn'[KeyOf(tuple, vars)]
        IN /\ pc' # "error"
           /\ \A j \in DOMAIN right_table[i] :
                 Matches(tuple, right_table[i][j].tuple, vars) <=>
                     \E k \in (DOMAIN emitted') \ (DOMAIN emitted) :
                         emitted'[k].how = "local" /\ emitted'[k].r = j]_vars_all

(* C23: execute terminates: when the left stream delivers EOF, every call  *)
(* of the source is answered and the output is drained, execute eventually *)
(* puts EOF on the output and returns.                                     *)
C23_ExecuteTerminates == <>(pc = "done" /\ out # <<>> /\ out[Len(out)].eof)

(***************************************************************************)
(* Properties of Triple.__lt__.                                            *)
(***************************************************************************)
\* the constants of a pattern in subject and predicate
SubjectPredicateConstants(t) == TripleConstSubjects(t) + TripleConstPredicates(t)

(* C24 as claimed: a < b whenever a has more constants in subject and      *)
(* predicate than b, and < is irreflexive and transitive.                  *)
C24_MoreSubjectPredicateFirst ==
    /\ \A a, b \in patterns :
          SubjectPredicateConstants(a) > SubjectPredicateConstants(b) => tlt[<<a, b>>]
    /\ \A a \in patterns : ~tlt[<<a, a>>]
    /\ \A a, b, c \in patterns : (tlt[<<a, b>>] /\ tlt[<<b, c>>]) => tlt[<<a, c>>]

(* C24: a < b whenever a has a constant subject and b has not; between     *)
(* patterns alike in their subject, a < b whenever both predicates are     *)
(* constant and only a has a constant object, and otherwise exactly when a *)
(* has the greater constant percentage; < is irreflexive and transitive.   *)
C24_SubjectFirst ==
    /\ \A a, b \in patterns :
          IF a.subject.constant # b.subject.constant
          THEN tlt[<<a, b>>] <=> a.subject.constant
          ELSE IF a.predicate.constant /\ b.predicate.constant
                  /\ a.theobject.constant # b.theobject.constant
          THEN tlt[<<a, b>>] <=> a.theobject.constant
          ELSE tlt[<<a, b>>] <=> TripleConstantNumber(a) > TripleConstantNumber(b)
    /\ \A a \in patterns : ~tlt[<<a, a>>]
    /\ \A a, b, c \in patterns : (tlt[<<a, b>>] /\ tlt[<<b, c>>]) => tlt[<<a, c>>]

(* the patterns of the claim's example, neither less than the other, and a *)
(* chain a < b < c                                                         *)
C24_Witness ==
    /\ Triple(VarX, IriC, VarY) \in patterns
    /\ Triple(VarX, VarY, IriC) \in patterns
    /\ ~tlt[<<Triple(VarX, IriC, VarY), Triple(VarX, VarY, IriC)>>]
    /\ \E c \in patterns :
          tlt[<<c, Triple(VarX, IriC, VarY)>>] /\ tlt[<<c, Triple(VarX, VarY, IriC)>>]

(***************************************************************************)
(* Further properties of the algebra tree.                                 *)
(***************************************************************************)
\* the variable at every position of every triple of a tree, position by position
RECURSIVE VariablePositions(_)
VariablePositions(n) ==
    LET kind == Kind(n)
        RECURSIVE below(_, _)
        below(items, k) ==
            IF k > Len(items) THEN <<>> ELSE VariablePositions(items[k]) \o below(items, k + 1)
    IN CASE kind = "Triple" ->
              SelectSeq(<<n.subject, n.predicate, n.theobject>>, LAMBDA a : ~a.constant)
         [] kind \in {"Service", "UnionBlock", "JoinBlock"} -> below(n.triples.items, 1)
         [] kind = "Optional" -> VariablePositions(n.bgg)
         [] kind = "Query" -> VariablePositions(n.body)
         [] OTHER -> <<>>

\* the variables that occur at two positions or more
AtTwoPositions(n) ==
    LET ps == VariablePositions(n)
    IN {ps[k].name : k \in {k \in DOMAIN ps : Count(ps, ps[k]) > 1}}

(* C26: join_vars of a Query is the set of the variables that occur at two *)
(* positions or more (subject, predicate or object) in the triples of the  *)
(* body the Query has now, when it is built and after every instantiate.   *)
C26_JoinVarsOfCurrentBody ==
    Kind(tree) = "Query" => tree.join_vars = AtTwoPositions(tree.body)

\* two trees of one shape: kinds, numbers of children and filters, node by node
RECURSIVE SameShape(_, _)
SameShape(a, b) ==
    LET kind == Kind(a)
        children ==
            /\ a.triples.islist = b.triples.islist
            /\ Len(a.triples.items) = Len(b.triples.items)
            /\ \A k \in DOMAIN a.triples.items :
                  SameShape(a.triples.items[k], b.triples.items[k])
    IN /\ Kind(b) = kind
       /\ CASE kind = "Service" ->
                 a.filters = b.filters /\ a.filter_nested = b.filter_nested /\ children
            [] kind = "UnionBlock" -> a.filters = b.filters /\ children
            [] kind = "JoinBlock" ->
                 a.filters = b.filters /\ a.filters_str = b.filters_str /\ children
            [] kind = "Optional" -> SameShape(a.bgg, b.bgg)
            [] kind = "Query" ->
                 a.args = b.args /\ a.filter_nested = b.filter_nested
                    /\ SameShape(a.body, b.body)
            [] OTHER -> TRUE

(* C25: the tree instantiate(d) returns has the shape of its receiver:     *)
(* every node keeps its kind, the number of its children and its filters.  *)
C25_InstantiateKeepsShape ==
    \A k \in DOMAIN trace :
        (trace[k].method = "instantiate" /\ ~IsRaised(trace[k].result))
            => SameShape(trace[k].self, trace[k].result)

\* a tree with every Service and Query the call reaches instantiated in place
RECURSIVE ServicesInstantiated(_, _)
ServicesInstantiated(n, d) ==
    LET kind == Kind(n)
    IN CASE kind \in {"Service", "Query"} -> instantiate(n, d)
         [] kind \in {"UnionBlock", "JoinBlock"} ->
              [n EXCEPT !.triples.items =
                  [k \in DOMAIN @ |-> ServicesInstantiated(@[k], d)]]
         [] kind = "Optional" -> [n EXCEPT !.bgg = ServicesInstantiated(@, d)]
         [] OTHER -> n

\* the calls of instantiate on a UnionBlock or a Triple that return
FreshCalls ==
    {k \in DOMAIN trace :
        /\ trace[k].method = "instantiate"
        /\ Kind(trace[k].self) \in {"UnionBlock", "Triple"}
        /\ ~IsRaised(trace[k].result)}

(* C28 as stated: instantiate(d) on a UnionBlock or a Triple leaves the    *)
(* receiver and every node reachable from it, nested Services included,    *)
(* with the arguments they had before the call.                            *)
C28_ReceiverUnchanged ==
    \A k \in FreshCalls : trace[k].after = trace[k].self

(* C28: instantiate(d) on a Triple leaves the receiver unchanged; on a     *)
(* UnionBlock it leaves the receiver's blocks, triples and filters         *)
(* unchanged, but every Service nested in them is instantiated in place    *)
(* and holds the substituted arguments after the call.                     *)
C28_OnlyServicesChanged ==
    \A k \in FreshCalls :
        /\ Kind(trace[k].self) = "Triple" => trace[k].after = trace[k].self
        /\ trace[k].after = ServicesInstantiated(trace[k].self, dict)

\* a UnionBlock whose nested Service was changed by the call
C28_Witness ==
    \E k \in FreshCalls :
        /\ Kind(trace[k].self) = "UnionBlock"
        /\ trace[k].after # trace[k].self
        /\ \E sv \in ServicesOf(trace[k].self) : sv \notin ServicesOf(trace[k].after)

(***************************************************************************)
(* Further properties of Xproject.                                         *)
(***************************************************************************)
\* the limit-th tuple is on the output, of a run the claim is about
LimitReached ==
    /\ xvars # <<>>
    /\ xlimit >= 1
    /\ XInputCount > xlimit
    /\ Len(xout) >= xlimit

(* C27: once the limit-th tuple is emitted (non-empty projection list,     *)
(* limit L >= 1, more than L input tuples) no further read is made:        *)
(* exactly L items were taken from the input, and the other tuples and the *)
(* EOF of the input stay on the stream.                                    *)
C27_NoReadAfterLimit ==
    LimitReached =>
        /\ xreads = xlimit
        /\ xleft = SubSeq(xin, xlimit + 1, Len(xin))
        /\ xleft[Len(xleft)].eof

\* a finished run that left tuples and the EOF of its input unread
C27_Witness ==
    /\ LimitReached
    /\ xpc = "done"
    /\ Len(xleft) >= 2
    /\ xout[Len(xout)].eof

(***************************************************************************)
(* Further properties of NestedLoopOptional.                               *)
(***************************************************************************)
(* C29: the clock never going back, a left record that probes its          *)
(* partition of R arrived no earlier than any record of the partition:     *)
(* isDuplicated is false of every one of them, the scan is not left early  *)
(* and every record of the partition reaches the match test.               *)
C29_EveryCachedRecordCompared ==
    [][pc = "probe" =>
        \A i \in DOMAIN left_table :
            left_table'[i] # left_table[i] =>
                LET rec == left_table'[i][Len(left_table'[i])]
                    partition == right_table[i]
                IN /\ \A k \in DOMAIN partition :
                         /\ rec.ats >= partition[k].ats
                         /\ ~isDuplicated(rec, partition[k])
                   /\ Scan(rec, partition, vars, 1, ScanStart).seen = Len(partition)]_vars_all

(***************************************************************************)
(* Properties of the pipeline of the two operators.                        *)
(***************************************************************************)
(* C30: NestedLoopOptional writing into a stream of capacity c >= 1 that   *)
(* Xproject reads with a limit L, both workers terminate in the end: the   *)
(* upstream worker is not left blocked on a put once Xproject stopped      *)
(* reading.                                                                *)
C30_PipelineTerminates == <>(pc = "done" /\ xpc = "done")

====
